---- MODULE Spec2Model ----
(***************************************************************************)
(* A model of fpdf/svg.py: the SVG-to-PDF-path conversion pipeline.        *)
(*                                                                         *)
(*   - the transform compiler  (convert_transforms)          SpecTransform *)
(*   - the path interpreter    (svg_path_converter, render)  SpecPath      *)
(*   - the document walker     (build_group, build_xref ..)  SpecWalk      *)
(*   - the viewport scaler     (transform_to_rect_viewport)  SpecViewport  *)
(*   - the page entry points   (draw_to_page ..)             SpecPage      *)
(*   - the shape converters    (ShapeBuilder)                SpecShape     *)
(*   - the style mapper        (parse_style, apply_styles)   SpecStyle     *)
(*                                                                         *)
(* Python floats are modelled as exact rationals <<num, den>> (den > 0,    *)
(* lowest terms), so equalities are those of real arithmetic.  Angles are  *)
(* kept as fractions of a full turn (radians / tau).                       *)
(***************************************************************************)
EXTENDS Integers, Sequences, FiniteSets, TLC

VARIABLES
    \* ---- transform compiler
    tfstr,        \* the transform attribute text, as a sequence of lexical items
    tf_pc,        \* "idle" | "ready" | "done"
    tf_result,    \* [err, t]: the value convert_transforms returned / raised
    \* ---- path interpreter
    path_pc,      \* "idle" | "start" | "loop" | "built" | "emit" | "emitted" | "raised"
    path_err,     \* "none" | "ValueError" | "IndexError"
    path_head,    \* lexical class of the path data given to svg_path_converter
    cmds,         \* the commands parse_path has yielded so far (absolute coordinates)
    current_pos,  \* svg_path_converter's current_pos
    elements,     \* pdf_path's element list
    resolved,     \* emission: the resolved element of each rendered element
    \* ---- document walker
    walk_pc,      \* "idle" | "walking" | "done" | "raised"
    stack,        \* the open build_group / handle_defs frames, innermost last
    heap,         \* the GraphicsContext / PaintedPath objects built so far
    cross_references,  \* SVGObject.cross_references: key -> object
    base_group,   \* SVGObject.base_group (0 until convert_graphics assigns it)
    cur_elem,     \* the element visited last, and the handler it went to
    visited,      \* how many elements have been visited
    clock,        \* counts the walker's steps: the traversal order
    \* ---- viewport scaler
    vp_pc,        \* "idle" | "returned" | "drawn" | "raised"
    svg,          \* [width, height, viewbox, preserve_ar]: extract_shape_info's fields
    root,         \* [items, transform]: the base group the scaler works on
    vp_call,      \* the last call's frame, then the note of a page-level call
    vp_ret,       \* what that call returned: [width, height, group]
    \* ---- style mapper
    style_pc,     \* "idle" | "parse" | "map" | "opacity" | "transform" | "done" | "raised"
    attrib,       \* svg_element.attrib: attribute name -> <<>> or <<value>>
    style,        \* stylable.style: field -> value, and stylable.transform
    style_i,      \* how many entries of svg_attr_map the loop has been through
    \* ---- shape converters
    shape_pc,     \* "idle" | "start" | "returned" | "raised"
    shape_tag,    \* [name, attrib]: the element given to the ShapeBuilder method
    shape_err,    \* "none" | "ValueError" | "KeyError"
    shape_path    \* the returned path: [styled, elements]

tfVars == <<tfstr, tf_pc, tf_result>>
pathVars == <<path_pc, path_err, path_head, cmds, current_pos, elements, resolved>>
walkVars == <<walk_pc, stack, heap, cross_references, base_group, cur_elem, visited, clock>>
vpVars == <<vp_pc, svg, root, vp_call, vp_ret>>
styleVars == <<style_pc, attrib, style, style_i>>
shapeVars == <<shape_pc, shape_tag, shape_err, shape_path>>
vars == <<tfVars, pathVars, walkVars, vpVars, styleVars, shapeVars>>

-----------------------------------------------------------------------------
(* Exact arithmetic standing for Python's float.                           *)

Abs(n) == IF n < 0 THEN -n ELSE n

RECURSIVE GCD(_, _)
GCD(a, b) == IF b = 0 THEN a ELSE GCD(b, a % b)

Norm(n, d) ==
    LET s == IF d < 0 THEN -1 ELSE 1
        g == GCD(Abs(n), Abs(d))
    IN  <<(s * n) \div g, (s * d) \div g>>

R(n) == <<n, 1>>
RAdd(p, q) == Norm(p[1] * q[2] + q[1] * p[2], p[2] * q[2])
RNeg(p) == <<-p[1], p[2]>>
RSub(p, q) == RAdd(p, RNeg(q))
RMul(p, q) == Norm(p[1] * q[1], p[2] * q[2])
RDiv(p, q) == Norm(p[1] * q[2], p[2] * q[1])
RLt(p, q) == p[1] * q[2] < q[1] * p[2]
RMin(p, q) == IF RLt(q, p) THEN q ELSE p
RZero == R(0)
ROne == R(1)

-----------------------------------------------------------------------------
(* fpdf.drawing.Transform and Point: the drawing model the converter       *)
(* populates.  A point is a row vector: p @ T has                          *)
(*   x' = a x + c y + e,   y' = b x + d y + f,                             *)
(* and s @ o applies s first, then o.                                      *)

Transform(a, b, c, d, e, f) == [a |-> a, b |-> b, c |-> c, d |-> d, e |-> e, f |-> f]

Identity == Transform(ROne, RZero, RZero, ROne, RZero, RZero)
Translation(x, y) == Transform(ROne, RZero, RZero, ROne, x, y)
Scaling(x, y) == Transform(x, RZero, RZero, y, RZero, RZero)
Shearing(x, y) == Transform(ROne, y, x, ROne, RZero, RZero)

MatMul(s, o) ==
    Transform(RAdd(RMul(s.a, o.a), RMul(s.b, o.c)),
              RAdd(RMul(s.a, o.b), RMul(s.b, o.d)),
              RAdd(RMul(s.c, o.a), RMul(s.d, o.c)),
              RAdd(RMul(s.c, o.b), RMul(s.d, o.d)),
              RAdd(RAdd(RMul(s.e, o.a), RMul(s.f, o.c)), o.e),
              RAdd(RAdd(RMul(s.e, o.b), RMul(s.f, o.d)), o.f))

PointMatMul(p, t) ==
    <<RAdd(RAdd(RMul(t.a, p[1]), RMul(t.c, p[2])), t.e),
      RAdd(RAdd(RMul(t.b, p[1]), RMul(t.d, p[2])), t.f)>>

\* cos and sin of an angle given in turns, for whole quarter turns.
QuarterTurns(theta) == ((theta[1] * 4) \div theta[2]) % 4
Cos(theta) == LET k == QuarterTurns(theta)
              IN  IF k = 0 THEN ROne ELSE IF k = 2 THEN R(-1) ELSE RZero
Sin(theta) == LET k == QuarterTurns(theta)
              IN  IF k = 1 THEN ROne ELSE IF k = 3 THEN R(-1) ELSE RZero
\* tan of an angle given in turns, for whole eighth turns off the poles.
Tan(theta) == LET k == ((theta[1] * 8) \div theta[2]) % 8
              IN  IF k \in {1, 5} THEN ROne ELSE IF k \in {3, 7} THEN R(-1) ELSE RZero

Rotation(theta) == Transform(Cos(theta), Sin(theta), RNeg(Sin(theta)), Cos(theta), RZero, RZero)
About(t, x, y) == MatMul(MatMul(Translation(RNeg(x), RNeg(y)), t), Translation(x, y))

-----------------------------------------------------------------------------
(* Unit resolver.  A numeric literal is modelled by its value; the regular *)
(* expression of a transform argument admits no unit suffix, so the        *)
(* default unit always applies there.                                      *)

DegPerTurn == 360

\* resolve_length(text) with no unit: float(value) * absolute_length_units["pt"]
resolve_length(value) == RMul(R(value), ROne)
\* resolve_angle(text) with no unit: float(value) * angle_units["deg"]
resolve_angle(value) == RMul(R(value), Norm(1, DegPerTurn))

-----------------------------------------------------------------------------
(* Transform compiler: convert_transforms.                                 *)
(*                                                                         *)
(* The attribute text is a sequence of lexical items.  An item is          *)
(*   [name, args, lex]:  name(args...) as written, where lex tells how the *)
(*   argument text reads:                                                  *)
(*     "num"   every argument is a float literal                           *)
(*     "dots"  made of digits and dots only, but no float ("1.2.3")        *)
(*     "word"  holds other characters ("abc", "1e3")                       *)
(* A name of "" is stray text between functions.                           *)

TransformNames ==
    {"matrix", "rotate", "scale", "scaleX", "scaleY", "skew", "skewX", "skewY",
     "translate", "translateX", "translateY"}

\* TRANSFORM_GETTER matches an item: a listed name, and an argument text of
\* one or more [-+]?[\d\.]+ tokens.
TransformGetterMatches(item) ==
    /\ item.name \in TransformNames
    /\ item.lex \in {"num", "dots"}
    /\ Len(item.args) >= 1

\* TRANSFORM_GETTER.findall(tfstr): the matching items, in order; all other
\* text is passed over.
TransformGetterFindall(s) == SelectSeq(s, TransformGetterMatches)

Raised(kind) == [err |-> kind, t |-> Identity]
Returned(t) == [err |-> "none", t |-> t]

\* The mutant of Compose: the new function composed after the accumulated one.
ComposeAfter(delta, transform) == MatMul(transform, delta)

\* "<delta> @ transform", the composition every branch ends with.
Compose(delta, transform) == MatMul(delta, transform)

\* The transform one parsed (tf_type, args) pair stands for, or the error
\* its branch of the loop raises.  float() of a "dots" text raises
\* ValueError in every branch.
FunctionTransform(item) ==
    LET args == item.args
        n == Len(args)
        ty == item.name
    IN  IF item.lex = "dots" THEN Raised("ValueError")
        ELSE IF ty = "matrix" THEN
            IF n # 6 THEN Raised("ValueError")
            ELSE Returned(Transform(R(args[1]), R(args[2]), R(args[3]),
                                    R(args[4]), R(args[5]), R(args[6])))
        ELSE IF ty = "rotate" THEN
            IF n = 1 THEN Returned(Rotation(resolve_angle(args[1])))
            ELSE IF n = 3
                 THEN Returned(About(Rotation(resolve_angle(args[1])), R(args[2]), R(args[3])))
                 ELSE Raised("ValueError")
        ELSE IF ty = "scale" THEN
            IF n = 2 THEN Returned(Scaling(R(args[1]), R(args[2])))
            ELSE IF n = 1 THEN Returned(Scaling(R(args[1]), R(args[1])))
            ELSE Raised("ValueError")
        ELSE IF ty = "scaleX" THEN
            \* float(args) of the whole argument text
            IF n # 1 THEN Raised("ValueError")
            ELSE Returned(Scaling(R(args[1]), ROne))
        ELSE IF ty = "scaleY" THEN
            IF n # 1 THEN Raised("ValueError")
            ELSE Returned(Scaling(ROne, R(args[1])))
        ELSE IF ty = "skew" THEN
            IF n = 2 THEN Returned(Shearing(Tan(resolve_angle(args[1])),
                                            Tan(resolve_angle(args[2]))))
            ELSE IF n = 1 THEN Returned(Shearing(Tan(resolve_angle(args[1])), RZero))
            ELSE Raised("ValueError")
        \* resolve_angle / resolve_length of the whole argument text: unit_splitter
        \* matches its leading number and the rest is not looked at.
        ELSE IF ty = "skewX" THEN
            Returned(Shearing(Tan(resolve_angle(args[1])), RZero))
        ELSE IF ty = "skewY" THEN
            Returned(Shearing(RZero, Tan(resolve_angle(args[1]))))
        ELSE IF ty = "translate" THEN
            IF n = 2 THEN Returned(Translation(resolve_length(args[1]),
                                               resolve_length(args[2])))
            ELSE IF n = 1 THEN Returned(Translation(resolve_length(args[1]), RZero))
            ELSE Raised("ValueError")
        ELSE IF ty = "translateX" THEN
            Returned(Translation(resolve_length(args[1]), RZero))
        ELSE \* translateY
            Returned(Translation(RZero, resolve_length(args[1])))

\* "transform = <the function's transform> @ transform", unless the branch raised.
ComposeOnto(delta, transform) ==
    IF delta.err # "none" THEN delta ELSE Returned(Compose(delta.t, transform))

\* One iteration of the loop over the parsed pairs.
ConvertOne(item, transform) == ComposeOnto(FunctionTransform(item), transform)

RECURSIVE ConvertLoop(_, _, _)
\* After iteration i left r: an error ends the call, else the loop goes on.
ConvertNext(parsed, i, r) ==
    IF r.err # "none" THEN r ELSE ConvertLoop(parsed, i + 1, r.t)

ConvertLoop(parsed, i, transform) ==
    IF i > Len(parsed) THEN Returned(transform)
    ELSE ConvertNext(parsed, i, ConvertOne(parsed[i], transform))

convert_transforms(s) == ConvertLoop(TransformGetterFindall(s), 1, Identity)

-----------------------------------------------------------------------------
(* The values a component's variables hold while another one runs.         *)

IdleTransform ==
    /\ tfstr = <<>>
    /\ tf_pc = "idle"
    /\ tf_result = Returned(Identity)

IdlePath ==
    /\ path_pc = "idle"
    /\ path_err = "none"
    /\ path_head = "M"
    /\ cmds = <<>>
    /\ current_pos = <<0, 0>>
    /\ elements = <<>>
    /\ resolved = <<>>

IdleWalk ==
    /\ walk_pc = "idle"
    /\ stack = <<>>
    /\ heap = <<>>
    /\ cross_references = <<>>
    /\ base_group = 0
    /\ cur_elem = <<>>
    /\ visited = 0
    /\ clock = 0

IdleViewport ==
    /\ vp_pc = "idle"
    /\ svg = <<>>
    /\ root = <<>>
    /\ vp_call = <<>>
    /\ vp_ret = <<>>

IdleStyle ==
    /\ style_pc = "idle"
    /\ attrib = <<>>
    /\ style = <<>>
    /\ style_i = 0

IdleShape ==
    /\ shape_pc = "idle"
    /\ shape_tag = <<>>
    /\ shape_err = "none"
    /\ shape_path = <<>>

-----------------------------------------------------------------------------
(* SpecTransform: apply_styles hands a transform attribute to              *)
(* convert_transforms.                                                     *)

MaxFns == 2

Fn(name, args) == [name |-> name, args |-> args, lex |-> "num"]

\* Function calls with the argument counts section 4.2 of the design lists.
WellFormedItems ==
    {Fn("matrix", <<1, 0, 0, 1, 1, 2>>), Fn("matrix", <<2, 1, 0, 1, 0, 1>>),
     Fn("rotate", <<90>>), Fn("rotate", <<90, 1, 0>>),
     Fn("scale", <<2>>), Fn("scale", <<2, 3>>),
     Fn("scaleX", <<2>>), Fn("scaleY", <<3>>),
     Fn("skew", <<45>>), Fn("skew", <<0, 45>>),
     Fn("skewX", <<45>>), Fn("skewY", <<45>>),
     Fn("translate", <<1>>), Fn("translate", <<1, 2>>),
     Fn("translateX", <<1>>), Fn("translateY", <<2>>)}

\* Text that is no well-formed call of a supported function.
MalformedItems ==
    {Fn("matrix", <<1, 0, 0, 1, 1>>), Fn("rotate", <<90, 1>>),
     Fn("scale", <<1, 2, 3>>), Fn("scaleX", <<2, 3>>),
     Fn("skew", <<45, 0, 0>>), Fn("skewX", <<45, 90>>),
     Fn("translate", <<1, 2, 3>>), Fn("translateX", <<1, 2>>),
     Fn("foo", <<1>>),
     [name |-> "translate", args |-> <<0>>, lex |-> "word"],
     [name |-> "translate", args |-> <<0>>, lex |-> "dots"],
     [name |-> "", args |-> <<>>, lex |-> "word"]}

TransformItems == WellFormedItems \union MalformedItems

TransformStrings == UNION {[1..n -> TransformItems] : n \in 0..MaxFns}

InitTransform ==
    /\ tfstr \in TransformStrings
    /\ tf_pc = "ready"
    /\ tf_result = Returned(Identity)
    /\ IdlePath /\ IdleWalk /\ IdleViewport /\ IdleStyle /\ IdleShape

\* apply_styles: stylable.transform = convert_transforms(tfstr)
ConvertTransforms ==
    /\ tf_pc = "ready"
    /\ tf_result' = convert_transforms(tfstr)
    /\ tf_pc' = "done"
    /\ UNCHANGED <<tfstr, pathVars, walkVars, vpVars, styleVars, shapeVars>>

NextTransform == ConvertTransforms

SpecTransform == InitTransform /\ [][NextTransform]_vars

(* What each function means for a point, as SVG defines it. *)

\* The argument counts of section 4.2.
WellFormed(item) ==
    /\ item.name \in TransformNames
    /\ item.lex = "num"
    /\ Len(item.args) \in
         (CASE item.name = "matrix" -> {6}
            [] item.name = "rotate" -> {1, 3}
            [] item.name \in {"scale", "skew", "translate"} -> {1, 2}
            [] OTHER -> {1})

AllWellFormed(s) == \A i \in 1..Len(s) : WellFormed(s[i])

RECURSIVE QuarterTurn(_, _)
QuarterTurn(k, p) == IF k = 0 THEN p ELSE QuarterTurn(k - 1, <<RNeg(p[2]), p[1]>>)

TanDeg(deg) == IF deg = 45 THEN ROne ELSE RZero

PointMap(item, p) ==
    LET a == item.args
        n == Len(a)
        ty == item.name
    IN  CASE ty = "matrix" ->
               <<RAdd(RAdd(RMul(R(a[1]), p[1]), RMul(R(a[3]), p[2])), R(a[5])),
                 RAdd(RAdd(RMul(R(a[2]), p[1]), RMul(R(a[4]), p[2])), R(a[6]))>>
          [] ty = "rotate" ->
               LET c == IF n = 3 THEN <<R(a[2]), R(a[3])>> ELSE <<RZero, RZero>>
                   q == QuarterTurn(a[1] \div 90, <<RSub(p[1], c[1]), RSub(p[2], c[2])>>)
               IN  <<RAdd(q[1], c[1]), RAdd(q[2], c[2])>>
          [] ty = "scale" ->
               <<RMul(R(a[1]), p[1]), RMul(R(IF n = 2 THEN a[2] ELSE a[1]), p[2])>>
          [] ty = "scaleX" -> <<RMul(R(a[1]), p[1]), p[2]>>
          [] ty = "scaleY" -> <<p[1], RMul(R(a[1]), p[2])>>
          [] ty = "skew" ->
               <<RAdd(p[1], RMul(TanDeg(a[1]), p[2])),
                 RAdd(p[2], RMul(IF n = 2 THEN TanDeg(a[2]) ELSE RZero, p[1]))>>
          [] ty = "skewX" -> <<RAdd(p[1], RMul(TanDeg(a[1]), p[2])), p[2]>>
          [] ty = "skewY" -> <<p[1], RAdd(p[2], RMul(TanDeg(a[1]), p[1]))>>
          [] ty = "translate" ->
               <<RAdd(p[1], R(a[1])), RAdd(p[2], R(IF n = 2 THEN a[2] ELSE 0))>>
          [] ty = "translateX" -> <<RAdd(p[1], R(a[1])), p[2]>>
          [] ty = "translateY" -> <<p[1], RAdd(p[2], R(a[1]))>>

\* f_i(f_i+1(... f_n(p))): the last function of the text meets the point first.
RECURSIVE LastFirst(_, _, _)
LastFirst(s, i, p) == IF i > Len(s) THEN p ELSE PointMap(s[i], LastFirst(s, i + 1, p))

\* f_n(... f_1(p)): the first function of the text meets the point first.
RECURSIVE FirstFirst(_, _, _)
FirstFirst(s, i, p) == IF i < 1 THEN p ELSE PointMap(s[i], FirstFirst(s, i - 1, p))

\* Three points in general position fix an affine map.
ProbePoints == {<<RZero, RZero>>, <<ROne, RZero>>, <<RZero, ROne>>}

\* C5: for a well-formed list f1 ... fn, convert_transforms returns the
\* transform that takes every point p to f1(f2(... fn(p))).
C5_TextOrderLastAppliedFirst ==
    (tf_pc = "done" /\ AllWellFormed(tfstr)) =>
        /\ tf_result.err = "none"
        /\ \A p \in ProbePoints : PointMatMul(p, tf_result.t) = LastFirst(tfstr, 1, p)

\* A list of two functions that do not commute has been compiled.
C5_Witness ==
    /\ tf_pc = "done"
    /\ Len(tfstr) >= 2
    /\ AllWellFormed(tfstr)
    /\ tf_result.err = "none"
    /\ \E p \in ProbePoints : LastFirst(tfstr, 1, p) # FirstFirst(tfstr, Len(tfstr), p)

\* C10: a transform attribute that is not entirely a well-formed list of
\* supported functions makes convert_transforms raise a format error.
C10_MalformedTransformRaises ==
    (tf_pc = "done" /\ ~AllWellFormed(tfstr)) => tf_result.err = "ValueError"

-----------------------------------------------------------------------------
(* Path interpreter: svg_path_converter, and the smooth-curve elements'    *)
(* render.  Path coordinates are integer points <<x, y>>.                  *)

PAdd(p, q) == <<p[1] + q[1], p[2] + q[2]>>
PSub(p, q) == <<p[1] - q[1], p[2] - q[2]>>
PTwice(p) == <<2 * p[1], 2 * p[2]>>
Origin == <<0, 0>>

\* A command as svg.path's parse_path yields it: coordinates are absolute
\* whatever the spelling, `relative` and `smooth` tell how it was written.
\* c1 is control1 (cubic) or control (quadratic), c2 is control2.
Cmd(type, relative, smooth, hv, c1, c2, end) ==
    [type |-> type, relative |-> relative, smooth |-> smooth, hv |-> hv,
     c1 |-> c1, c2 |-> c2, end |-> end]

\* An element of a PaintedPath, and a resolved element of the rendering.
\* Unused points are Origin; a quadratic curve keeps its control in c1.
Elem(tag, c1, c2, end) == [tag |-> tag, c1 |-> c1, c2 |-> c2, end |-> end]

\* The element svg_path_converter appends for cmd at current_pos `cur`.
ConvertCmd(cmd, cur) ==
    CASE cmd.type = "Move" ->
           IF cmd.relative
           THEN Elem("RelativeMove", Origin, Origin, PSub(cmd.end, cur))
           ELSE Elem("Move", Origin, Origin, cmd.end)
      [] cmd.type = "Line" ->
           IF cmd.hv = "h" THEN
               IF cmd.relative
               THEN Elem("RelativeHorizontalLine", Origin, Origin,
                         <<PSub(cmd.end, cur)[1], 0>>)
               ELSE Elem("HorizontalLine", Origin, Origin, <<cmd.end[1], 0>>)
           ELSE IF cmd.hv = "v" THEN
               IF cmd.relative
               THEN Elem("RelativeVerticalLine", Origin, Origin,
                         <<0, PSub(cmd.end, cur)[2]>>)
               ELSE Elem("VerticalLine", Origin, Origin, <<0, cmd.end[2]>>)
           ELSE
               IF cmd.relative
               THEN Elem("RelativeLine", Origin, Origin, PSub(cmd.end, cur))
               ELSE Elem("Line", Origin, Origin, cmd.end)
      [] cmd.type = "Arc" ->
           IF cmd.relative
           THEN Elem("RelativeArc", Origin, Origin, PSub(cmd.end, cur))
           ELSE Elem("Arc", Origin, Origin, cmd.end)
      [] cmd.type = "CubicBezier" ->
           IF cmd.smooth THEN
               IF cmd.relative
               THEN Elem("SVGRelativeSmoothCubicCurve", Origin,
                         PSub(cmd.c2, cur), PSub(cmd.end, cur))
               ELSE Elem("SVGSmoothCubicCurve", Origin, cmd.c2, cmd.end)
           ELSE
               IF cmd.relative
               THEN Elem("RelativeBezierCurve", PSub(cmd.c1, cur),
                         PSub(cmd.c2, cur), PSub(cmd.end, cur))
               ELSE Elem("BezierCurve", cmd.c1, cmd.c2, cmd.end)
      [] cmd.type = "QuadraticBezier" ->
           IF cmd.smooth THEN
               IF cmd.relative
               THEN Elem("SVGRelativeSmoothQuadraticCurve", Origin, Origin,
                         PSub(cmd.end, cur))
               ELSE Elem("SVGSmoothQuadraticCurve", Origin, Origin, cmd.end)
           ELSE
               IF cmd.relative
               THEN Elem("RelativeQuadraticBezierCurve", PSub(cmd.c1, cur),
                         Origin, PSub(cmd.end, cur))
               ELSE Elem("QuadraticBezierCurve", cmd.c1, Origin, cmd.end)
      [] cmd.type = "Close" -> Elem("Close", Origin, Origin, Origin)

(* The smooth elements' render: the curve each resolves to, given the      *)
(* resolved element before it (last_item).                                 *)

\* The mutant of SmoothCubicRender: the first control point is always the
\* current point.
SmoothCubicRenderNoReflection(self, last_item) ==
    Elem("BezierCurve", last_item.end, self.c2, self.end)

\* SVGSmoothCubicCurve.render
SmoothCubicRender(self, last_item) ==
    LET c1 == IF last_item.tag = "BezierCurve"
              THEN PSub(PTwice(last_item.end), last_item.c2)
              ELSE last_item.end
    IN  Elem("BezierCurve", c1, self.c2, self.end)

\* SVGRelativeSmoothCubicCurve.render
RelativeSmoothCubicRender(self, last_item) ==
    LET last_point == last_item.end
        c1 == IF last_item.tag = "BezierCurve"
              THEN PSub(PTwice(last_item.end), last_item.c2)
              ELSE last_point
    IN  Elem("BezierCurve", c1, PAdd(last_point, self.c2), PAdd(last_point, self.end))

\* SVGSmoothQuadraticCurve.render
SmoothQuadraticRender(self, last_item) ==
    LET ctrl == IF last_item.tag = "QuadraticBezierCurve"
                THEN PSub(PTwice(last_item.end), last_item.c1)
                ELSE last_item.end
    IN  Elem("QuadraticBezierCurve", ctrl, Origin, self.end)

\* SVGRelativeSmoothQuadraticCurve.render
RelativeSmoothQuadraticRender(self, last_item) ==
    LET last_point == last_item.end
        ctrl == IF last_item.tag = "QuadraticBezierCurve"
                THEN PSub(PTwice(last_item.end), last_item.c1)
                ELSE last_point
    IN  Elem("QuadraticBezierCurve", ctrl, Origin, PAdd(last_point, self.end))

\* The drawing model's own elements: what each resolves to.  A relative
\* element resolves to its absolute form, an arc and a line to a non-curve
\* ending at their end point, a close to a move to the subpath's start.
DrawingRender(self, last_item, initial_point) ==
    LET last == last_item.end
        t == self.tag
    IN  CASE t = "Move" -> Elem("Move", Origin, Origin, self.end)
          [] t = "RelativeMove" -> Elem("Move", Origin, Origin, PAdd(last, self.end))
          [] t = "Line" -> Elem("Line", Origin, Origin, self.end)
          [] t = "RelativeLine" -> Elem("Line", Origin, Origin, PAdd(last, self.end))
          [] t = "HorizontalLine" -> Elem("Line", Origin, Origin, <<self.end[1], last[2]>>)
          [] t = "RelativeHorizontalLine" ->
               Elem("Line", Origin, Origin, <<last[1] + self.end[1], last[2]>>)
          [] t = "VerticalLine" -> Elem("Line", Origin, Origin, <<last[1], self.end[2]>>)
          [] t = "RelativeVerticalLine" ->
               Elem("Line", Origin, Origin, <<last[1], last[2] + self.end[2]>>)
          [] t = "Arc" -> Elem("Arc", Origin, Origin, self.end)
          [] t = "RelativeArc" -> Elem("Arc", Origin, Origin, PAdd(last, self.end))
          [] t = "BezierCurve" -> self
          [] t = "RelativeBezierCurve" ->
               Elem("BezierCurve", PAdd(last, self.c1), PAdd(last, self.c2),
                    PAdd(last, self.end))
          [] t = "QuadraticBezierCurve" -> self
          [] t = "RelativeQuadraticBezierCurve" ->
               Elem("QuadraticBezierCurve", PAdd(last, self.c1), Origin,
                    PAdd(last, self.end))
          [] t = "Close" -> Elem("Move", Origin, Origin, initial_point)

Render(self, last_item, initial_point) ==
    CASE self.tag = "SVGSmoothCubicCurve" -> SmoothCubicRender(self, last_item)
      [] self.tag = "SVGRelativeSmoothCubicCurve" -> RelativeSmoothCubicRender(self, last_item)
      [] self.tag = "SVGSmoothQuadraticCurve" -> SmoothQuadraticRender(self, last_item)
      [] self.tag = "SVGRelativeSmoothQuadraticCurve" ->
           RelativeSmoothQuadraticRender(self, last_item)
      [] OTHER -> DrawingRender(self, last_item, initial_point)

\* The rendering pass over a path's elements: each element is rendered
\* against the resolved element before it; a move sets the subpath's start.
RECURSIVE RenderList(_, _, _, _, _)
RenderList(els, i, last_item, initial_point, acc) ==
    IF i > Len(els) THEN acc
    ELSE LET r == Render(els[i], last_item, initial_point)
             ip == IF r.tag = "Move" /\ els[i].tag # "Close" THEN r.end ELSE initial_point
         IN  RenderList(els, i + 1, r, ip, Append(acc, r))

StarterMove == Elem("Move", Origin, Origin, Origin)

-----------------------------------------------------------------------------
(* SpecPath: one call of svg_path_converter on a fresh PaintedPath, one    *)
(* action per command parse_path yields, then the path's rendering.        *)

MaxCmds == 3

PathPoints == {<<1, 0>>, <<3, 2>>}

\* How the path data begins: its first characters by class ("ws": white
\* space, "1": a digit, otherwise the command letter).
PathHeads == {<<>>, <<"ws">>, <<"M">>, <<"m">>, <<"L">>, <<"ws", "L">>, <<"1">>}

\* str.strip() at the front of the text
RECURSIVE Strip(_)
Strip(s) == IF s # <<>> /\ Head(s) = "ws" THEN Strip(Tail(s)) ELSE s

InitPath ==
    /\ path_pc = "start"
    /\ path_err = "none"
    /\ path_head = <<>>
    /\ cmds = <<>>
    /\ current_pos = Origin
    /\ elements = <<>>
    /\ resolved = <<>>
    /\ IdleTransform /\ IdleWalk /\ IdleViewport /\ IdleStyle /\ IdleShape

\* svg_path.strip(); svg_path[0] not in {"M", "m"}; current_pos = 0
SvgPathConverterStart ==
    /\ path_pc = "start"
    /\ \E head \in PathHeads :
         /\ path_head' = head
         /\ IF Strip(head) = <<>>
            THEN path_err' = "IndexError" /\ path_pc' = "raised"
            ELSE IF Strip(head)[1] \notin {"M", "m"}
                 THEN path_err' = "ValueError" /\ path_pc' = "raised"
                 ELSE path_err' = "none" /\ path_pc' = "loop"
    /\ UNCHANGED <<cmds, current_pos, elements, resolved, tfVars, walkVars, vpVars, styleVars, shapeVars>>

\* LoopBody without its last line: current_pos stays what it was.
LoopBodyStale(cmd) ==
    /\ elements' = Append(elements, ConvertCmd(cmd, current_pos))
    /\ cmds' = Append(cmds, cmd)
    /\ UNCHANGED <<current_pos, path_pc, path_err, path_head, resolved, tfVars,
                   walkVars, vpVars, styleVars, shapeVars>>

\* One iteration of "for cmd in parse_path(svg_path)" ending in
\* current_pos = cmd.end.
LoopBody(cmd) ==
    /\ elements' = Append(elements, ConvertCmd(cmd, current_pos))
    /\ cmds' = Append(cmds, cmd)
    /\ current_pos' = cmd.end
    /\ UNCHANGED <<path_pc, path_err, path_head, resolved, tfVars, walkVars, vpVars, styleVars, shapeVars>>

InLoop == path_pc = "loop" /\ Len(cmds) < MaxCmds
AfterFirst == InLoop /\ Len(cmds) >= 1

\* The point a closepath returns to: the most recent moveto's.
RECURSIVE SubpathStart(_, _)
SubpathStart(cs, i) ==
    IF i = 0 THEN Origin
    ELSE IF cs[i].type = "Move" THEN cs[i].end ELSE SubpathStart(cs, i - 1)

CmdMove ==
    /\ InLoop
    /\ \E rel \in BOOLEAN, end \in PathPoints :
         /\ Len(cmds) = 0 => rel = (Strip(path_head)[1] = "m")
         /\ LoopBody(Cmd("Move", rel, FALSE, "", Origin, Origin, end))

CmdLine ==
    /\ AfterFirst
    /\ \E rel \in BOOLEAN, end \in PathPoints, hv \in {"", "h", "v"} :
         LoopBody(Cmd("Line", rel, FALSE, hv, Origin, Origin,
                      IF hv = "h" THEN <<end[1], current_pos[2]>>
                      ELSE IF hv = "v" THEN <<current_pos[1], end[2]>>
                      ELSE end))

CmdArc ==
    /\ AfterFirst
    /\ \E rel \in BOOLEAN, end \in PathPoints :
         LoopBody(Cmd("Arc", rel, FALSE, "", Origin, Origin, end))

CmdCubic ==
    /\ AfterFirst
    /\ \E rel \in BOOLEAN, smooth \in BOOLEAN, c1, c2, end \in PathPoints :
         \* a smooth command spells no first control point
         /\ smooth => c1 = end
         /\ LoopBody(Cmd("CubicBezier", rel, smooth, "",
                         IF smooth THEN Origin ELSE c1, c2, end))

CmdQuadratic ==
    /\ AfterFirst
    /\ \E rel \in BOOLEAN, smooth \in BOOLEAN, c1, end \in PathPoints :
         /\ smooth => c1 = end
         /\ LoopBody(Cmd("QuadraticBezier", rel, smooth, "",
                         IF smooth THEN Origin ELSE c1, Origin, end))

CmdClose ==
    /\ AfterFirst
    /\ LoopBody(Cmd("Close", FALSE, FALSE, "", Origin, Origin,
                    SubpathStart(cmds, Len(cmds))))

\* parse_path is exhausted: svg_path_converter returns.
PathEnd ==
    /\ path_pc = "loop"
    /\ Len(cmds) >= 1
    /\ path_pc' = "built"
    /\ UNCHANGED <<path_err, path_head, cmds, current_pos, elements, resolved,
                   tfVars, walkVars, vpVars, styleVars, shapeVars>>

\* The path is emitted: its elements are rendered in order.
Emit ==
    /\ path_pc = "built"
    /\ resolved' = RenderList(elements, 1, StarterMove, Origin, <<>>)
    /\ path_pc' = "emitted"
    /\ UNCHANGED <<path_err, path_head, cmds, current_pos, elements,
                   tfVars, walkVars, vpVars, styleVars, shapeVars>>

NextPath ==
    \/ SvgPathConverterStart
    \/ CmdMove
    \/ CmdLine
    \/ CmdArc
    \/ CmdCubic
    \/ CmdQuadratic
    \/ CmdClose
    \/ PathEnd
    \/ Emit

SpecPath == InitPath /\ [][NextPath]_vars

(* The leading control point the path data calls for, read off the         *)
(* commands alone.                                                         *)

RECURSIVE LeadingControl(_, _)
\* The control point command i's curve has nearest its end.
LastControl(cs, i) ==
    IF cs[i].type = "CubicBezier" THEN cs[i].c2
    ELSE IF cs[i].smooth THEN LeadingControl(cs, i) ELSE cs[i].c1
\* The leading control point of smooth command i (i >= 2).
LeadingControl(cs, i) ==
    IF cs[i - 1].type = cs[i].type
    THEN PSub(PTwice(cs[i - 1].end), LastControl(cs, i - 1))
    ELSE cs[i - 1].end

\* C4: in the emitted list the leading control point of every smooth segment
\* is 2*end - lastControl of the segment before it when that is a curve of
\* the same family, and the current point otherwise.
C4_SmoothLeadingControl ==
    path_pc = "emitted" =>
        \A i \in 1..Len(cmds) :
            cmds[i].smooth =>
                /\ resolved[i].tag = (IF cmds[i].type = "CubicBezier"
                                      THEN "BezierCurve" ELSE "QuadraticBezierCurve")
                /\ resolved[i].c1 = LeadingControl(cmds, i)

\* A smooth segment chained on a smooth segment of its family has been
\* emitted, with a reflected control point that is not the current point.
C4_Witness ==
    /\ path_pc = "emitted"
    /\ Len(cmds) = 3
    /\ cmds[2].smooth /\ cmds[3].smooth /\ cmds[3].relative
    /\ cmds[2].type = cmds[3].type
    /\ resolved[3].c1 = LeadingControl(cmds, 3)
    /\ resolved[3].c1 # cmds[2].end

\* The same geometry with every command in its absolute form.
AbsoluteSpelling(cs) == [i \in 1..Len(cs) |-> [cs[i] EXCEPT !.relative = FALSE]]

\* The elements the commands cs give, each converted at the end point of the
\* command before it.
ElementsOf(cs) ==
    [i \in 1..Len(cs) |-> ConvertCmd(cs[i], IF i = 1 THEN Origin ELSE cs[i - 1].end)]

Interpreted == path_pc \in {"loop", "built", "emitted"} /\ Len(cmds) >= 1

\* C17: for path data that starts with a moveto, current_pos after each
\* command is that command's absolute end point, and after a closepath the
\* point of the most recent moveto; relative offsets are taken against it,
\* so every segment resolves to the command's absolute end point, and the
\* resolved segments (end points and control points) are those of the same
\* geometry spelled with absolute commands.
C17_RunningPositionResolvesRelative ==
    /\ Interpreted =>
          /\ current_pos = cmds[Len(cmds)].end
          /\ cmds[Len(cmds)].type = "Close"
                => current_pos = SubpathStart(cmds, Len(cmds) - 1)
          /\ elements = ElementsOf(cmds)
    /\ path_pc = "emitted" =>
          /\ \A i \in 1..Len(cmds) : resolved[i].end = cmds[i].end
          /\ resolved = RenderList(ElementsOf(AbsoluteSpelling(cmds)), 1,
                                   StarterMove, Origin, <<>>)

\* C17 witness: M, Z, then a relative line whose offset is not its end point:
\* it was taken against the moveto's point, where the closepath had left
\* current_pos, and the segment resolved to the command's end point.
C17_Witness ==
    /\ path_pc = "emitted"
    /\ Len(cmds) = 3
    /\ cmds[1].type = "Move" /\ cmds[2].type = "Close"
    /\ cmds[3].type = "Line" /\ cmds[3].relative /\ cmds[3].hv = ""
    /\ elements[3].end = PSub(cmds[3].end, cmds[1].end)
    /\ elements[3].end # cmds[3].end
    /\ resolved[3].end = cmds[3].end

\* C6: path data that does not begin with a moveto is rejected with a format
\* error, and nothing is appended to the path.
C6_NoMovetoIsFormatError ==
    (path_pc # "start" /\ (Strip(path_head) = <<>> \/ Strip(path_head)[1] \notin {"M", "m"}))
        => (path_err = "ValueError" /\ elements = <<>>)

-----------------------------------------------------------------------------
(* Document walker: build_group, handle_defs, build_path, build_xref and   *)
(* the shape builders, over a document met element by element in           *)
(* traversal order.                                                        *)
(*                                                                         *)
(* An absent attribute is <<>>, a present one <<value>>.  An object is a   *)
(* GraphicsContext or a PaintedPath; heap[i] is the object with identity   *)
(* i, and a group's items are identities, as Python's references are.      *)
(* born and done are the steps at which the object was created and at      *)
(* which the build of its element returned (0: not yet).                   *)

Element(tag, id, href, x, y, transform) ==
    [tag |-> tag, id |-> id, href |-> href, x |-> x, y |-> y, transform |-> transform]

\* "#" + id
Key(id) == <<"#", id>>

Object(kind, src, transform, items, born, done) ==
    [kind |-> kind, src |-> src, transform |-> transform, items |-> items,
     born |-> born, done |-> done]

Styled(r) == [err |-> r.err, transform |-> <<r.t>>]

\* apply_styles, as far as the transform goes: [err, transform].  A new
\* object's transform is None.
ApplyStyles(svg_element) ==
    IF svg_element.transform = <<>>
    THEN [err |-> "none", transform |-> <<>>]
    ELSE Styled(convert_transforms(svg_element.transform[1]))

OrZero(attr) == IF attr = <<>> THEN 0 ELSE attr[1]

\* The transform build_xref leaves on the wrapping group.
XrefTransform(xref, styled) ==
    IF xref.x # <<>> \/ xref.y # <<>>
    THEN <<Translation(R(OrZero(xref.x)), R(OrZero(xref.y)))>>
    ELSE styled.transform

XrefFailed(xref, now) ==
    [err |-> "ValueError", obj |-> Object("GraphicsContext", xref, <<>>, <<>>, now, 0)]

\* The mutant of XrefLookup: a reference to an unknown key yields an empty
\* group instead of an error.
XrefLookupLenient(xref, styled, refs, now) ==
    [err |-> "none",
     obj |-> Object("GraphicsContext", xref, XrefTransform(xref, styled),
                    IF xref.href # <<>> /\ refs[xref.href[1]] # 0
                    THEN <<refs[xref.href[1]]>> ELSE <<>>, now, now)]

\* build_xref from the href lookup on, given what apply_styles left.
XrefLookup(xref, styled, refs, now) ==
    IF xref.href = <<>> THEN XrefFailed(xref, now)
    ELSE IF refs[xref.href[1]] = 0 THEN XrefFailed(xref, now)
    ELSE [err |-> "none",
          obj |-> Object("GraphicsContext", xref, XrefTransform(xref, styled),
                         <<refs[xref.href[1]]>>, now, now)]

XrefStyled(xref, styled, refs, now) ==
    IF styled.err # "none" THEN XrefFailed(xref, now)
    ELSE XrefLookup(xref, styled, refs, now)

\* build_xref: [err, obj].
BuildXref(xref, refs, now) == XrefStyled(xref, ApplyStyles(xref), refs, now)

\* self.cross_references["#" + tag.attrib["id"]] = obj, when there is an id
Register(refs, tag, obj) ==
    IF tag.id = "" THEN refs ELSE [refs EXCEPT ![Key(tag.id)] = obj]

\* pdf_group.add_item(child)
AddItem(h, group, child) == [h EXCEPT ![group].items = Append(@, child)]

-----------------------------------------------------------------------------
(* SpecWalk: SVGObject.convert_graphics on one document.                   *)

MaxElems == 3

Ids == {"a", "b"}
OptIds == {""} \union Ids
Keys == {Key(id) : id \in Ids}

Scale2 == <<Fn("scale", <<2>>)>>

\* The id, x, y and transform attributes a use element comes with.
UseLayouts ==
    {[id |-> "", x |-> <<>>, y |-> <<>>, transform |-> <<>>],
     [id |-> "a", x |-> <<>>, y |-> <<>>, transform |-> <<>>],
     [id |-> "", x |-> <<3>>, y |-> <<>>, transform |-> <<>>],
     [id |-> "", x |-> <<3>>, y |-> <<4>>, transform |-> <<Scale2>>],
     [id |-> "", x |-> <<>>, y |-> <<>>, transform |-> <<Scale2>>]}

ShapeTags == {"rect", "circle"}

SvgRoot == Element("svg", "", <<>>, <<>>, <<>>, <<>>)

Frame(kind, obj, elem) == [kind |-> kind, obj |-> obj, elem |-> elem]

InitWalk ==
    /\ walk_pc = "walking"
    /\ heap = <<Object("GraphicsContext", SvgRoot, <<>>, <<>>, 0, 0)>>
    /\ stack = <<Frame("group", 1, SvgRoot)>>
    /\ cross_references = [k \in Keys |-> 0]
    /\ base_group = 0
    /\ cur_elem = <<>>
    /\ visited = 0
    /\ clock = 0
    /\ IdleTransform /\ IdlePath /\ IdleViewport /\ IdleStyle /\ IdleShape

Walking == walk_pc = "walking" /\ stack # <<>>
Top == stack[Len(stack)]
CanVisit == Walking /\ visited < MaxElems

Visit(elem, via) ==
    /\ cur_elem' = <<[elem |-> elem, via |-> via, at |-> clock + 1]>>
    /\ visited' = visited + 1
    /\ clock' = clock + 1

\* The walk stops on an exception.
Raise ==
    /\ walk_pc' = "raised"
    /\ UNCHANGED <<stack, heap, cross_references, base_group>>

\* EnterGroup with the id registered as soon as the group exists.
EnterGroupRegistering(elem, styled) ==
    /\ Visit(elem, "build_group")
    /\ IF styled.err # "none" THEN Raise
       ELSE /\ heap' = Append(heap, Object("GraphicsContext", elem,
                                           styled.transform, <<>>, clock + 1, 0))
            /\ stack' = Append(stack, Frame("group", Len(heap) + 1, elem))
            /\ cross_references' = Register(cross_references, elem, Len(heap) + 1)
            /\ UNCHANGED <<walk_pc, base_group>>

\* build_group(child) has made its GraphicsContext and styled it.
EnterGroup(elem, styled) ==
    /\ Visit(elem, "build_group")
    /\ IF styled.err # "none" THEN Raise
       ELSE /\ heap' = Append(heap, Object("GraphicsContext", elem,
                                           styled.transform, <<>>, clock + 1, 0))
            /\ stack' = Append(stack, Frame("group", Len(heap) + 1, elem))
            /\ UNCHANGED <<walk_pc, cross_references, base_group>>

\* A g child, of a group or of defs: build_group(child) creates its
\* GraphicsContext and starts on its children.
VisitGroup ==
    /\ CanVisit
    /\ \E id \in OptIds, tf \in {<<>>, <<Scale2>>} :
         EnterGroup(Element("g", id, <<>>, <<>>, <<>>, tf),
                    ApplyStyles(Element("g", id, <<>>, <<>>, <<>>, tf)))
    /\ UNCHANGED <<tfVars, pathVars, vpVars, styleVars, shapeVars>>

\* The children of a g are done: build_group registers the id and returns;
\* a parent group adds the result, handle_defs drops it.
LeaveGroup ==
    /\ Walking
    /\ Len(stack) > 1
    /\ Top.kind = "group"
    /\ LET parent == stack[Len(stack) - 1]
           h == [heap EXCEPT ![Top.obj].done = clock + 1]
       IN  /\ cross_references' = Register(cross_references, Top.elem, Top.obj)
           /\ heap' = IF parent.kind = "group" THEN AddItem(h, parent.obj, Top.obj) ELSE h
    /\ stack' = SubSeq(stack, 1, Len(stack) - 1)
    /\ clock' = clock + 1
    /\ UNCHANGED <<walk_pc, base_group, cur_elem, visited, tfVars, pathVars, vpVars, styleVars, shapeVars>>

\* A defs child of a group: handle_defs(child).
VisitDefs ==
    /\ CanVisit
    /\ Top.kind = "group"
    /\ Visit(Element("defs", "", <<>>, <<>>, <<>>, <<>>), "handle_defs")
    /\ stack' = Append(stack, Frame("defs", 0, Element("defs", "", <<>>, <<>>, <<>>, <<>>)))
    /\ UNCHANGED <<walk_pc, heap, cross_references, base_group, tfVars, pathVars, vpVars, styleVars, shapeVars>>

LeaveDefs ==
    /\ Walking
    /\ Top.kind = "defs"
    /\ stack' = SubSeq(stack, 1, Len(stack) - 1)
    /\ clock' = clock + 1
    /\ UNCHANGED <<walk_pc, heap, cross_references, base_group, cur_elem, visited,
                   tfVars, pathVars, vpVars, styleVars, shapeVars>>

\* A new object joins the heap; a group met it as a child and adds it.
Built(obj, parent) ==
    IF parent.kind = "group"
    THEN AddItem(Append(heap, obj), parent.obj, Len(heap) + 1)
    ELSE Append(heap, obj)

BuildPath(elem, styled) ==
    /\ Visit(elem, "build_path")
    /\ IF styled.err # "none" THEN Raise
       ELSE /\ cross_references' = Register(cross_references, elem, Len(heap) + 1)
            /\ heap' = Built(Object("PaintedPath", elem, styled.transform, <<>>,
                                    clock + 1, clock + 1), Top)
            /\ UNCHANGED <<walk_pc, stack, base_group>>

\* A path child, of a group or of defs: build_path.
VisitPath ==
    /\ CanVisit
    /\ \E id \in OptIds :
         BuildPath(Element("path", id, <<>>, <<>>, <<>>, <<>>),
                   ApplyStyles(Element("path", id, <<>>, <<>>, <<>>, <<>>)))
    /\ UNCHANGED <<tfVars, pathVars, vpVars, styleVars, shapeVars>>

BuildShape(elem, styled) ==
    /\ Visit(elem, "ShapeBuilder")
    /\ IF styled.err # "none" THEN Raise
       ELSE /\ heap' = Built(Object("PaintedPath", elem, styled.transform, <<>>,
                                    clock + 1, clock + 1), Top)
            /\ UNCHANGED <<walk_pc, stack, cross_references, base_group>>

\* A basic shape child of a group: the ShapeBuilder method of its tag.
VisitShape ==
    /\ CanVisit
    /\ Top.kind = "group"
    /\ \E tag \in ShapeTags, id \in {"", "a"} :
         BuildShape(Element(tag, id, <<>>, <<>>, <<>>, <<>>),
                    ApplyStyles(Element(tag, id, <<>>, <<>>, <<>>, <<>>)))
    /\ UNCHANGED <<tfVars, pathVars, vpVars, styleVars, shapeVars>>

AddXref(elem, r) ==
    /\ Visit(elem, "build_xref")
    /\ IF r.err # "none" THEN Raise
       ELSE /\ heap' = Built(r.obj, Top)
            /\ UNCHANGED <<walk_pc, stack, cross_references, base_group>>

\* A use child of a group: build_xref.
VisitUse ==
    /\ CanVisit
    /\ Top.kind = "group"
    /\ \E href \in {<<>>} \union {<<k>> : k \in Keys}, l \in UseLayouts :
         AddXref(Element("use", l.id, href, l.x, l.y, l.transform),
                 BuildXref(Element("use", l.id, href, l.x, l.y, l.transform),
                           cross_references, clock + 1))
    /\ UNCHANGED <<tfVars, pathVars, vpVars, styleVars, shapeVars>>

\* A child no branch takes: any other tag in a group; in defs, anything but
\* g and path.  Neither it nor what it contains is visited.
VisitIgnored ==
    /\ CanVisit
    /\ \E tag \in {"text", "defs", "use"} \union ShapeTags, id \in {"", "a"} :
         /\ Top.kind = "group" => tag = "text"
         /\ Visit(Element(tag, id, IF tag = "use" THEN <<Key("a")>> ELSE <<>>,
                          <<>>, <<>>, <<>>), "ignored")
    /\ UNCHANGED <<walk_pc, stack, heap, cross_references, base_group,
                   tfVars, pathVars, vpVars, styleVars, shapeVars>>

\* The root's children are done: build_group(root_tag, base_group) returns
\* and convert_graphics keeps the group.
Finish ==
    /\ Walking
    /\ Len(stack) = 1
    /\ cross_references' = Register(cross_references, Top.elem, Top.obj)
    /\ heap' = [heap EXCEPT ![Top.obj].done = clock + 1]
    /\ base_group' = Top.obj
    /\ stack' = <<>>
    /\ walk_pc' = "done"
    /\ clock' = clock + 1
    /\ UNCHANGED <<cur_elem, visited, tfVars, pathVars, vpVars, styleVars, shapeVars>>

NextWalk ==
    \/ VisitGroup
    \/ LeaveGroup
    \/ VisitDefs
    \/ LeaveDefs
    \/ VisitPath
    \/ VisitShape
    \/ VisitUse
    \/ VisitIgnored
    \/ Finish

SpecWalk == InitWalk /\ [][NextWalk]_vars

-----------------------------------------------------------------------------
(* Cross-references: what a use resolves to, what it carries, and who      *)
(* registers.                                                              *)

Objects == 1..Len(heap)
UseObjects == {u \in Objects : heap[u].src.tag = "use"}

\* The build of object t returned before object u was created.
CompletedBefore(t, u) == heap[t].done # 0 /\ heap[t].done < heap[u].born

\* The objects whose element put them under the key before u was created.
\* build_group and build_path are the two places that write to
\* cross_references.
RegisteredBefore(key, u) ==
    {t \in Objects : /\ heap[t].src.tag \in {"g", "path"}
                     /\ heap[t].src.id # ""
                     /\ Key(heap[t].src.id) = key
                     /\ CompletedBefore(t, u)}

\* t is the last of them.
LatestRegistered(t, key, u) ==
    /\ t \in RegisteredBefore(key, u)
    /\ \A o \in RegisteredBefore(key, u) : heap[o].done <= heap[t].done

\* The use element being handled got its wrapping group.
CurrentUseResolved ==
    \E u \in UseObjects : heap[u].born = cur_elem[1].at /\ heap[u].src = cur_elem[1].elem

ForwardReferenceRaised ==
    /\ walk_pc = "raised"
    /\ cur_elem[1].via = "build_xref"
    /\ cur_elem[1].elem.href # <<>>
    /\ \E i \in 1..Len(stack) :
          stack[i].elem.id # "" /\ Key(stack[i].elem.id) = cur_elem[1].elem.href[1]

(* Child links: the objects an object holds in its items. *)

ChildrenOf(o) == {heap[o].items[i] : i \in 1..Len(heap[o].items)}

\* What can be reached from the objects of S in at most n more links.
RECURSIVE Within(_, _)
Within(S, n) ==
    IF n = 0 THEN S ELSE Within(S \union UNION {ChildrenOf(o) : o \in S}, n - 1)

ReachableFrom(o) == Within(ChildrenOf(o), Len(heap))

\* C18: in every state during and after the walk no object is reachable
\* from itself through child links, a use inside the group whose id it names
\* and elements sharing an id included: a group's id is registered only when
\* its children are done.
C18_DrawableStructureAcyclic ==
    \A o \in Objects : o \notin ReachableFrom(o)

\* C18 witness: the conversion finished with a use inside a group, naming
\* that group's id; it holds an earlier element of the same id, and the
\* group, which holds the use, is not among what the use reaches.
C18_Witness ==
    /\ walk_pc = "done"
    /\ \E g \in Objects, u \in UseObjects :
          /\ heap[g].src.tag = "g" /\ heap[g].src.id # ""
          /\ u \in ChildrenOf(g)
          /\ heap[u].src.href = <<Key(heap[g].src.id)>>
          /\ heap[heap[u].items[1]].src.id = heap[g].src.id
          /\ g \notin ReachableFrom(u)
          /\ cross_references[Key(heap[g].src.id)] = g

\* The transform the use element's own transform attribute stands for.
OwnTransform(use) == convert_transforms(use.transform[1]).t

UseTranslation(use) == Translation(R(OrZero(use.x)), R(OrZero(use.y)))

\* C2: the group build_xref makes for a use with x and/or y holds the
\* referenced object and carries translate(x, y), a missing one being 0, as
\* an addition: with a transform attribute on the use as well, the group's
\* transform is that transform together with the translation.
C2_UseTranslationIsAdditional ==
    \A u \in UseObjects :
        (heap[u].src.x # <<>> \/ heap[u].src.y # <<>>) =>
            /\ Len(heap[u].items) = 1
            /\ IF heap[u].src.transform = <<>>
               THEN heap[u].transform = <<UseTranslation(heap[u].src)>>
               ELSE heap[u].transform \in
                       {<<MatMul(UseTranslation(heap[u].src), OwnTransform(heap[u].src))>>,
                        <<MatMul(OwnTransform(heap[u].src), UseTranslation(heap[u].src))>>}

\* C3: every element that was built and has an id is registered: under
\* "#" + id the table holds it, or a later-built element of the same id.
C3_EveryBuiltIdRegisters ==
    \A o \in Objects :
        (heap[o].done # 0 /\ heap[o].src.id # "") =>
            /\ cross_references[Key(heap[o].src.id)] # 0
            /\ heap[cross_references[Key(heap[o].src.id)]].done >= heap[o].done

-----------------------------------------------------------------------------
(* Viewport: SVGObject.transform_to_rect_viewport on a converted document. *)
(*                                                                         *)
(* svg holds what extract_shape_info kept: width and height (None, a       *)
(* Percent or a length), viewbox and preserve_ar; root is base_group, its  *)
(* items and its transform.                                                *)

PercentBase == 100

Percent(v) == [pct |-> TRUE, v |-> R(v)]
Length(v) == [pct |-> FALSE, v |-> R(v)]

\* Python's truth of a number
Truthy(q) == q[1] # 0

Sized(v) == [err |-> "none", v |-> v]

\* vp_width, or vp_height, from the document's own size and the argument.
ViewportSide(ignore_svg_top_attrs, own, given) ==
    IF ignore_svg_top_attrs THEN Sized(given)
    ELSE IF own # <<>> /\ own[1].pct
         THEN IF ~Truthy(given) THEN [err |-> "ValueError", v |-> RZero]
              ELSE Sized(RDiv(RMul(own[1].v, given), R(PercentBase)))
         ELSE IF own # <<>> /\ Truthy(own[1].v) THEN Sized(own[1].v) ELSE Sized(given)

ScaleTransform(scale) ==
    IF scale = ROne THEN Identity
    ELSE Scaling(RDiv(ROne, scale), RDiv(ROne, scale))

\* The mutant of PreserveAspect: the two ratios are left as they are.
PreserveAspectOff(ignore_svg_top_attrs, preserve_ar, w_ratio, h_ratio) ==
    <<w_ratio, h_ratio>>

\* <<w_ratio, h_ratio>> after the aspect-ratio rule.
PreserveAspect(ignore_svg_top_attrs, preserve_ar, w_ratio, h_ratio) ==
    IF ~ignore_svg_top_attrs /\ preserve_ar /\ w_ratio # h_ratio
    THEN <<RMin(w_ratio, h_ratio), RMin(w_ratio, h_ratio)>>
    ELSE <<w_ratio, h_ratio>>

Half(q) == RDiv(q, R(2))

\* transform @ translation(-vx, -vy) @ scaling(w_ratio, h_ratio), and the
\* centring translation after it when align_viewbox.
ViewboxTransform(transform, viewbox, ratios, align_viewbox, vp_width, vp_height) ==
    IF align_viewbox
    THEN MatMul(MatMul(MatMul(transform, Translation(RNeg(viewbox[1]), RNeg(viewbox[2]))),
                       Scaling(ratios[1], ratios[2])),
                Translation(RSub(Half(vp_width), RMul(Half(viewbox[3]), ratios[1])),
                            RSub(Half(vp_height), RMul(Half(viewbox[4]), ratios[2]))))
    ELSE MatMul(MatMul(transform, Translation(RNeg(viewbox[1]), RNeg(viewbox[2]))),
                Scaling(ratios[1], ratios[2]))

\* The transform the call leaves on base_group.
RootTransform(call, vp_width, vp_height) ==
    IF svg.viewbox = <<>> THEN ScaleTransform(call.scale)
    ELSE ViewboxTransform(ScaleTransform(call.scale), svg.viewbox[1],
                          PreserveAspect(call.ignore_svg_top_attrs, svg.preserve_ar,
                                         RDiv(vp_width, svg.viewbox[1][3]),
                                         RDiv(vp_height, svg.viewbox[1][4])),
                          call.align_viewbox, vp_width, vp_height)

ZeroArea(viewbox) == viewbox # <<>> /\ (viewbox[1][3] = RZero \/ viewbox[1][4] = RZero)

CallFrame(call, vp_width, vp_height) ==
    [scale |-> call.scale, width |-> call.width, height |-> call.height,
     align_viewbox |-> call.align_viewbox,
     ignore_svg_top_attrs |-> call.ignore_svg_top_attrs,
     vp_width |-> vp_width, vp_height |-> vp_height]

\* WithTransform composing onto the transform the group already has.
WithTransformComposed(group, transform) ==
    [group EXCEPT !.transform = IF group.transform = <<>> THEN <<transform>>
                                ELSE <<MatMul(group.transform[1], transform)>>]

\* group.transform = transform
WithTransform(group, transform) == [group EXCEPT !.transform = <<transform>>]

\* What a call leaves behind: how it ended, its frame, what it returned and
\* the root group afterwards.
Outcome(pc, frame, ret, group) ==
    [pc |-> pc, frame |-> frame, ret |-> ret, root |-> group]

Computed(call, w, h, group) ==
    Outcome("returned", CallFrame(call, <<w.v>>, <<h.v>>),
            <<[width |-> RDiv(w.v, call.scale), height |-> RDiv(h.v, call.scale),
               group |-> group]>>,
            group)

\* Resolve with the transform assigned before the viewBox is looked at.
ResolveAssigningFirst(call, w, h) ==
    IF w.err # "none" \/ h.err # "none"
    THEN Outcome("raised", CallFrame(call, <<>>, <<>>), <<>>, root)
    ELSE IF ZeroArea(svg.viewbox)
         THEN Outcome("returned", CallFrame(call, <<w.v>>, <<h.v>>),
                      <<[width |-> RZero, height |-> RZero,
                         group |-> [items |-> <<>>, transform |-> <<>>]]>>,
                      WithTransform(root, ScaleTransform(call.scale)))
         ELSE Computed(call, w, h,
                       WithTransform(root, RootTransform(call, w.v, h.v)))

\* The body of transform_to_rect_viewport once both sides are resolved.
Resolve(call, w, h) ==
    IF w.err # "none" \/ h.err # "none"
    THEN Outcome("raised", CallFrame(call, <<>>, <<>>), <<>>, root)
    ELSE IF ZeroArea(svg.viewbox)
         THEN Outcome("returned", CallFrame(call, <<w.v>>, <<h.v>>),
                      <<[width |-> RZero, height |-> RZero,
                         group |-> [items |-> <<>>, transform |-> <<>>]]>>,
                      root)
         ELSE Computed(call, w, h,
                       WithTransform(root, RootTransform(call, w.v, h.v)))

\* The caller's view once the call is over; note is what a page-level entry
\* point adds to the frame.
Leave(o, note) ==
    /\ vp_pc' = o.pc
    /\ vp_call' = <<o.frame>> \o note
    /\ vp_ret' = o.ret
    /\ root' = o.root
    /\ heap' = [heap EXCEPT ![base_group].transform = o.root.transform]
    /\ UNCHANGED <<stack, cross_references, base_group, cur_elem, visited,
                   clock, walk_pc>>

-----------------------------------------------------------------------------
(* SpecViewport: calls of transform_to_rect_viewport on one document.      *)

Scales == {1, 2}
ViewportSizes == {0, 200}
OwnWidths == {<<>>, <<Percent(0)>>, <<Percent(50)>>, <<Length(0)>>, <<Length(200)>>}
OwnHeights == {<<>>, <<Percent(50)>>}
Viewbox(vx, vy, vw, vh) == <<R(vx), R(vy), R(vw), R(vh)>>
Viewboxes ==
    {<<>>, <<Viewbox(0, 0, 100, 50)>>, <<Viewbox(10, 20, 100, 50)>>,
     <<Viewbox(0, 0, 0, 50)>>, <<Viewbox(0, 0, 100, 100)>>}

\* The walker's state after convert_graphics went over a document holding one
\* path of id "a": the root group (object 1) holds the path (object 2).
ConvertedDocument ==
    /\ walk_pc = "done"
    /\ stack = <<>>
    /\ heap = <<Object("GraphicsContext", SvgRoot, <<>>, <<2>>, 0, 2),
                Object("PaintedPath", Element("path", "a", <<>>, <<>>, <<>>, <<>>),
                       <<>>, <<>>, 1, 1)>>
    /\ cross_references = [k \in Keys |-> IF k = Key("a") THEN 2 ELSE 0]
    /\ base_group = 1
    /\ cur_elem = <<[elem |-> Element("path", "a", <<>>, <<>>, <<>>, <<>>),
                     via |-> "build_path", at |-> 1]>>
    /\ visited = 1
    /\ clock = 2

\* root is base_group as the scaler sees it: its items and its transform.
InitViewport ==
    /\ vp_pc = "idle"
    /\ svg \in [width : OwnWidths, height : OwnHeights, viewbox : Viewboxes,
                preserve_ar : BOOLEAN]
    /\ root = [items |-> <<2>>, transform |-> <<>>]
    /\ vp_call = <<>>
    /\ vp_ret = <<>>
    /\ ConvertedDocument
    /\ IdleTransform /\ IdlePath /\ IdleStyle /\ IdleShape

TransformToRectViewport ==
    /\ \E scale \in Scales, width \in ViewportSizes, height \in ViewportSizes,
          align_viewbox \in BOOLEAN, ignore_svg_top_attrs \in BOOLEAN :
         Leave(Resolve([scale |-> R(scale), width |-> R(width),
                        height |-> R(height), align_viewbox |-> align_viewbox,
                        ignore_svg_top_attrs |-> ignore_svg_top_attrs],
                       ViewportSide(ignore_svg_top_attrs, svg.width, R(width)),
                       ViewportSide(ignore_svg_top_attrs, svg.height, R(height))),
               <<>>)
    /\ UNCHANGED <<svg, tfVars, pathVars, styleVars, shapeVars>>

NextViewport == TransformToRectViewport

SpecViewport == InitViewport /\ [][NextViewport]_vars

\* The call returned through its last line, with a viewBox of non-zero area.
ReturnedWithViewbox ==
    vp_pc = "returned" /\ svg.viewbox # <<>> /\ ~ZeroArea(svg.viewbox)

AspectPreserved == svg.preserve_ar /\ ~vp_call[1].ignore_svg_top_attrs

\* min(target width / viewBox width, target height / viewBox height)
MinRatio ==
    RMin(RDiv(vp_call[1].vp_width[1], svg.viewbox[1][3]),
         RDiv(vp_call[1].vp_height[1], svg.viewbox[1][4]))

\* C7: with a viewBox of non-zero area and aspect-ratio preservation in
\* effect, the x and y scale factors on the root group are equal, and are the
\* smaller of target width / viewBox width and target height / viewBox
\* height (over the call's scale, which the transform starts from).
C7_AspectRatiosCollapseToMin ==
    (ReturnedWithViewbox /\ AspectPreserved) =>
        /\ root.transform[1].a = root.transform[1].d
        /\ root.transform[1].b = RZero /\ root.transform[1].c = RZero
        /\ RMul(root.transform[1].a, vp_call[1].scale) = MinRatio

\* C7 witness: viewBox 0 0 100 50 into 200 x 200 at scale 1 gives (2, 2).
C7_Witness ==
    /\ ReturnedWithViewbox /\ AspectPreserved
    /\ svg.viewbox = <<Viewbox(0, 0, 100, 50)>>
    /\ vp_call[1].vp_width = <<R(200)>> /\ vp_call[1].vp_height = <<R(200)>>
    /\ vp_call[1].scale = ROne
    /\ root.transform[1].a = R(2) /\ root.transform[1].d = R(2)

ViewboxCentre ==
    <<RAdd(svg.viewbox[1][1], Half(svg.viewbox[1][3])),
      RAdd(svg.viewbox[1][2], Half(svg.viewbox[1][4]))>>

\* C8: with align_viewbox and a viewBox of non-zero area, the root transform
\* takes the centre of the viewBox to the centre of the rectangle of the
\* returned width and height, whatever the viewBox origin and the scale.
C8_ViewboxCentred ==
    (ReturnedWithViewbox /\ vp_call[1].align_viewbox) =>
        PointMatMul(ViewboxCentre, root.transform[1])
            = <<Half(vp_ret[1].width), Half(vp_ret[1].height)>>

\* C9: a call that returns a width or a height of 0 returns an empty group.
C9_ZeroSizeIsEmpty ==
    (vp_pc = "returned" /\ (vp_ret[1].width = RZero \/ vp_ret[1].height = RZero))
        => vp_ret[1].group.items = <<>>

\* Every object but the root group is as it was, and the root group differs
\* at most in its transform.
OnlyRootTransformMay ==
    /\ DOMAIN heap' = DOMAIN heap
    /\ \A i \in DOMAIN heap :
          heap'[i] = IF i = base_group
                     THEN [heap[i] EXCEPT !.transform = heap'[i].transform]
                     ELSE heap[i]
    /\ root'.items = root.items

\* C16: after the walk, a call of transform_to_rect_viewport, returning or
\* raising, leaves the root group's children, every descendant, the
\* cross-reference table and the intrinsic width, height and viewBox as they
\* were; and a call that raises, or that meets a viewBox of zero area, leaves
\* the root transform as it was too.
C16_OnlyRootTransformChanges ==
    [][/\ walk_pc = "done"
       /\ UNCHANGED <<svg, cross_references, base_group, walk_pc>>
       /\ OnlyRootTransformMay
       /\ (vp_pc' = "raised" \/ ZeroArea(svg.viewbox))
             => (root' = root /\ heap' = heap)]_vars

\* C16 witness: a call raised on an object that an earlier call had given a
\* transform, and the transform, the children and the table are still there.
C16_Witness ==
    /\ vp_pc = "raised"
    /\ root.transform # <<>>
    /\ heap[base_group].transform = root.transform
    /\ heap[base_group].items = <<2>>
    /\ cross_references[Key("a")] = 2

-----------------------------------------------------------------------------
(* SpecPage: transform_to_rect_viewport, transform_to_page_viewport and    *)
(* draw_to_page called in any order on one converted document.  A          *)
(* page-level call adds a note to its frame: which entry point it was, the *)
(* (x, y) it was given, and the root transform it found.                   *)

\* pdf.k, pdf.epw, pdf.eph
Pdfs == {[k |-> 2, epw |-> 200, eph |-> 200], [k |-> 1, epw |-> 200, eph |-> 0]}
\* x, y of draw_to_page: both None, or both given
Offsets == {<<>>, <<R(5), R(7)>>}

PageCall(pdf, align_viewbox) ==
    [scale |-> R(pdf.k), width |-> R(pdf.epw), height |-> R(pdf.eph),
     align_viewbox |-> align_viewbox, ignore_svg_top_attrs |-> FALSE]

PageNote(op, xy) == <<[op |-> op, xy |-> xy, before |-> root.transform]>>

\* self.transform_to_rect_viewport(pdf.k, pdf.epw, pdf.eph, align_viewbox)
PageOutcome(call) ==
    Resolve(call, ViewportSide(FALSE, svg.width, call.width),
            ViewportSide(FALSE, svg.height, call.height))

InitPage ==
    /\ vp_pc = "idle"
    /\ svg \in [width : {<<>>, <<Percent(50)>>}, height : {<<>>},
                viewbox : {<<>>, <<Viewbox(10, 20, 100, 50)>>,
                           <<Viewbox(0, 0, 0, 50)>>},
                preserve_ar : {TRUE}]
    /\ root = [items |-> <<2>>, transform |-> <<>>]
    /\ vp_call = <<>>
    /\ vp_ret = <<>>
    /\ ConvertedDocument
    /\ IdleTransform /\ IdlePath /\ IdleStyle /\ IdleShape

TransformToPageViewport ==
    /\ \E pdf \in Pdfs, align_viewbox \in BOOLEAN :
         Leave(PageOutcome(PageCall(pdf, align_viewbox)),
               PageNote("transform_to_page_viewport", <<>>))
    /\ UNCHANGED <<svg, tfVars, pathVars, styleVars, shapeVars>>

\* draw_to_page after its transform_to_page_viewport call came back with o.
\* With (x, y) the returned path gets path.transform @ translation(x, y); the
\* path is base_group unless the viewBox has zero area, when it is a new
\* GraphicsContext whose transform is None, and what None @ Transform does is
\* fpdf.drawing's: the call may raise or go on.  draw_to_page returns None.
Draw(o, xy, note) ==
    IF o.pc = "raised" THEN Leave(o, note)
    ELSE IF xy = <<>> THEN Leave(Outcome("drawn", o.frame, <<>>, o.root), note)
    ELSE IF o.ret[1].group.transform = <<>>
         THEN \E pc \in {"raised", "drawn"} :
                 Leave(Outcome(pc, o.frame, <<>>, o.root), note)
         ELSE Leave(Outcome("drawn", o.frame, <<>>,
                            WithTransform(o.root,
                                MatMul(o.root.transform[1],
                                       Translation(xy[1], xy[2])))),
                    note)

DrawToPage ==
    /\ \E pdf \in Pdfs, xy \in Offsets :
         Draw(PageOutcome(PageCall(pdf, TRUE)), xy, PageNote("draw_to_page", xy))
    /\ UNCHANGED <<svg, tfVars, pathVars, styleVars, shapeVars>>

NextPage ==
    \/ TransformToRectViewport
    \/ TransformToPageViewport
    \/ DrawToPage

SpecPage == InitPage /\ [][NextPage]_vars

\* What the last call gives a newly converted object: the viewport transform
\* of its own frame, and after it the (x, y) translation of a draw_to_page.
FreshTransform ==
    IF Len(vp_call) = 2 /\ vp_call[2].xy # <<>>
    THEN MatMul(RootTransform(vp_call[1], vp_call[1].vp_width[1],
                              vp_call[1].vp_height[1]),
                Translation(vp_call[2].xy[1], vp_call[2].xy[2]))
    ELSE RootTransform(vp_call[1], vp_call[1].vp_width[1], vp_call[1].vp_height[1])

ComputedTransform == vp_pc \in {"returned", "drawn"} /\ ~ZeroArea(svg.viewbox)

\* C19: after any sequence of transform_to_rect_viewport,
\* transform_to_page_viewport and draw_to_page calls, the root transform left
\* by a call that computes one is the transform the same call gives a newly
\* converted object: nothing of earlier calls, the translation of an earlier
\* draw_to_page included, is in it.
C19_TransformsDoNotAccumulate ==
    ComputedTransform => root.transform = <<FreshTransform>>

\* C19 witness: transform_to_page_viewport at k = 2 returned on an object
\* whose root transform was the (5, 7) translation of an earlier
\* draw_to_page, and the root transform is the bare scaling by 1/2.
C19_Witness ==
    /\ vp_pc = "returned" /\ svg.viewbox = <<>>
    /\ Len(vp_call) = 2 /\ vp_call[2].op = "transform_to_page_viewport"
    /\ vp_call[2].before = <<Translation(R(5), R(7))>>
    /\ root.transform = <<Scaling(Half(ROne), Half(ROne))>>

-----------------------------------------------------------------------------
(* Shape converters: the ShapeBuilder methods.                             *)
(*                                                                         *)
(* An attribute value is a text: Num(n) is the text of the number n,       *)
(* Word(w) any other text.  A path is [styled, elements]: whether          *)
(* new_path made it (and so apply_styles went over the tag), and the       *)
(* drawing calls made on it, in order.                                     *)

Num(n) == [word |-> "", n |-> n]
Word(w) == [word |-> w, n |-> 0]
Auto == Word("auto")

AttrNames == {"width", "height", "rx", "ry", "r", "x1", "y1", "x2", "y2", "points"}
NoAttrs == [name \in AttrNames |-> <<>>]

\* tag.attrib.get(name, default)
Get(tag, name, default) ==
    IF tag.attrib[name] = <<>> THEN default ELSE tag.attrib[name][1]

\* tag.attrib[name] raises KeyError
Has(tag, name) == tag.attrib[name] # <<>>

\* float(text) raises ValueError unless the text is a number
IsFloat(v) == v.word = ""
Float(v) == R(v.n)

Failed(kind) == [err |-> kind, styled |-> FALSE, elements |-> <<>>]
\* PaintedPath()
BarePath == [err |-> "none", styled |-> FALSE, elements |-> <<>>]
\* cls.new_path(tag) and the calls made on it
NewPath(calls) == [err |-> "none", styled |-> TRUE, elements |-> calls]

NoneIsZero(v) == IF v = Word("none") THEN Num(0) ELSE v

\* The mutant of ClampRadius: the radius is left as it is.
ClampRadiusOff(r, side) == r

\* if rx > (width / 2): rx = width / 2
ClampRadius(r, side) == IF RLt(Half(side), r) THEN Half(side) ELSE r

\* rect, once rx and ry hold the texts the auto rule left in them.
RectDrawn(width, height, rx, ry) ==
    IF ~IsFloat(width) \/ ~IsFloat(height) \/ ~IsFloat(rx) \/ ~IsFloat(ry)
    THEN Failed("ValueError")
    ELSE IF width.n < 0 \/ height.n < 0 \/ rx.n < 0 \/ ry.n < 0
    THEN Failed("ValueError")
    ELSE IF width.n = 0 \/ height.n = 0
    THEN BarePath
    ELSE NewPath(<<[shape |-> "rectangle", w |-> Float(width), h |-> Float(height),
                    rx |-> ClampRadius(Float(rx), Float(width)),
                    ry |-> ClampRadius(Float(ry), Float(height))]>>)

\* rect, once "none" has been replaced by 0: the auto rule.
RectAuto(width, height, rx, ry) ==
    IF rx = Auto /\ ry = Auto THEN RectDrawn(width, height, Num(0), Num(0))
    ELSE IF rx = Auto THEN RectDrawn(width, height, ry, ry)
    ELSE IF ry = Auto THEN RectDrawn(width, height, rx, rx)
    ELSE RectDrawn(width, height, rx, ry)

\* ShapeBuilder.rect
Rect(tag) ==
    RectAuto(Get(tag, "width", Num(0)), Get(tag, "height", Num(0)),
             NoneIsZero(Get(tag, "rx", Auto)), NoneIsZero(Get(tag, "ry", Auto)))

\* ShapeBuilder.circle
Circle(tag) ==
    IF ~Has(tag, "r") THEN Failed("KeyError")
    ELSE IF ~IsFloat(tag.attrib["r"][1]) THEN Failed("ValueError")
    ELSE NewPath(<<[shape |-> "circle", r |-> Float(tag.attrib["r"][1])]>>)

\* rx == 0, with rx the attribute's text (or "auto"): a text is never equal
\* to the integer 0.
TextEqualsZero(v) == FALSE

EllipseDrawn(rx, ry) ==
    IF ~IsFloat(rx) \/ ~IsFloat(ry) THEN Failed("ValueError")
    ELSE NewPath(<<[shape |-> "ellipse", rx |-> Float(rx), ry |-> Float(ry)]>>)

EllipseAuto(rx, ry) ==
    IF (rx = Auto /\ ry = Auto) \/ TextEqualsZero(rx) \/ TextEqualsZero(ry)
    THEN NewPath(<<>>)
    ELSE IF rx = Auto THEN EllipseDrawn(ry, ry)
    ELSE IF ry = Auto THEN EllipseDrawn(rx, rx)
    ELSE EllipseDrawn(rx, ry)

\* ShapeBuilder.ellipse
Ellipse(tag) == EllipseAuto(Get(tag, "rx", Auto), Get(tag, "ry", Auto))

\* ShapeBuilder.line
Line(tag) ==
    IF ~Has(tag, "x1") \/ ~Has(tag, "y1") \/ ~Has(tag, "x2") \/ ~Has(tag, "y2")
    THEN Failed("KeyError")
    ELSE NewPath(<<[shape |-> "move_to", x |-> Float(tag.attrib["x1"][1]),
                    y |-> Float(tag.attrib["y1"][1])],
                   [shape |-> "line_to", x |-> Float(tag.attrib["x2"][1]),
                    y |-> Float(tag.attrib["y2"][1])]>>)

\* ShapeBuilder.polyline: svg_path_converter(path, "M" + points)
Polyline(tag) ==
    IF ~Has(tag, "points") THEN Failed("KeyError")
    ELSE NewPath(<<[shape |-> "svg_path", d |-> <<"M", tag.attrib["points"][1]>>]>>)

\* ShapeBuilder.polygon: svg_path_converter(path, "M" + points + "Z")
Polygon(tag) ==
    IF ~Has(tag, "points") THEN Failed("KeyError")
    ELSE NewPath(<<[shape |-> "svg_path", d |-> <<"M", tag.attrib["points"][1], "Z">>]>>)

-----------------------------------------------------------------------------
(* SpecShape: build_group hands one basic shape element to the             *)
(* ShapeBuilder method of its tag.                                         *)

Radii == {<<>>, <<Auto>>, <<Word("none")>>, <<Num(-1)>>, <<Num(0)>>, <<Num(2)>>, <<Num(5)>>}
RectWidths == {<<>>, <<Num(-1)>>, <<Num(4)>>, <<Num(8)>>}
RectHeights == {<<>>, <<Num(4)>>}
Coordinates == {<<>>, <<Num(1)>>}
PointLists == {<<>>, <<Word("0,0 1,1")>>}

ShapeElement(name, attrs) == [name |-> name, attrib |-> attrs]

ShapeElements ==
    {ShapeElement("rect", [NoAttrs EXCEPT !["width"] = w, !["height"] = h,
                                          !["rx"] = rx, !["ry"] = ry]) :
        w \in RectWidths, h \in RectHeights, rx \in Radii, ry \in Radii}
    \union {ShapeElement("circle", [NoAttrs EXCEPT !["r"] = r]) : r \in Radii \ {<<Auto>>, <<Word("none")>>}}
    \union {ShapeElement("ellipse", [NoAttrs EXCEPT !["rx"] = rx, !["ry"] = ry]) :
              rx \in Radii, ry \in Radii}
    \union {ShapeElement("line", [NoAttrs EXCEPT !["x1"] = x1, !["y1"] = y1,
                                                 !["x2"] = x2, !["y2"] = y2]) :
              x1 \in Coordinates, y1 \in Coordinates, x2 \in Coordinates, y2 \in Coordinates}
    \union {ShapeElement(name, [NoAttrs EXCEPT !["points"] = pts]) :
              name \in {"polyline", "polygon"}, pts \in PointLists}

InitShape ==
    /\ shape_pc = "start"
    /\ shape_tag \in ShapeElements
    /\ shape_err = "none"
    /\ shape_path = <<>>
    /\ IdleTransform /\ IdlePath /\ IdleWalk /\ IdleViewport /\ IdleStyle

\* The ShapeBuilder method returned or raised.
ShapeBuilt(r) ==
    /\ shape_pc' = IF r.err = "none" THEN "returned" ELSE "raised"
    /\ shape_err' = r.err
    /\ shape_path' = [styled |-> r.styled, elements |-> r.elements]
    /\ UNCHANGED <<shape_tag, tfVars, pathVars, walkVars, vpVars, styleVars>>

\* getattr(ShapeBuilder, shape_tags[child.tag])(child)
Dispatch(name) == shape_pc = "start" /\ shape_tag.name = name

ShapeRect ==
    /\ Dispatch("rect")
    /\ ShapeBuilt(Rect(shape_tag))

ShapeCircle ==
    /\ Dispatch("circle")
    /\ ShapeBuilt(Circle(shape_tag))

ShapeEllipse ==
    /\ Dispatch("ellipse")
    /\ ShapeBuilt(Ellipse(shape_tag))

ShapeLine ==
    /\ Dispatch("line")
    /\ ShapeBuilt(Line(shape_tag))

ShapePolyline ==
    /\ Dispatch("polyline")
    /\ ShapeBuilt(Polyline(shape_tag))

ShapePolygon ==
    /\ Dispatch("polygon")
    /\ ShapeBuilt(Polygon(shape_tag))

NextShape ==
    \/ ShapeRect
    \/ ShapeCircle
    \/ ShapeEllipse
    \/ ShapeLine
    \/ ShapePolyline
    \/ ShapePolygon

SpecShape == InitShape /\ [][NextShape]_vars

\* The text of a radius attribute is a negative number.
Negative(tag, name) ==
    Has(tag, name) /\ IsFloat(tag.attrib[name][1]) /\ tag.attrib[name][1].n < 0

NegativeRadius ==
    \/ shape_tag.name = "circle" /\ Negative(shape_tag, "r")
    \/ shape_tag.name \in {"ellipse", "rect"}
          /\ (Negative(shape_tag, "rx") \/ Negative(shape_tag, "ry"))

\* C11: a circle, ellipse or rect with a negative radius fails with the
\* format error and produces no geometry.
C11_NegativeRadiusFails ==
    (shape_pc # "start" /\ NegativeRadius) =>
        (shape_pc = "raised" /\ shape_err = "ValueError" /\ shape_path.elements = <<>>)

MissingRequired ==
    \/ shape_tag.name = "circle" /\ ~Has(shape_tag, "r")
    \/ shape_tag.name = "line"
          /\ \E name \in {"x1", "y1", "x2", "y2"} : ~Has(shape_tag, name)
    \/ shape_tag.name \in {"polyline", "polygon"} /\ ~Has(shape_tag, "points")

\* C12: a shape lacking a required attribute fails with the same kind of
\* error as a rect of negative dimension does, the format error.
C12_MissingAttributeIsFormatError ==
    (shape_pc # "start" /\ MissingRequired) =>
        (shape_pc = "raised" /\ shape_err = "ValueError")

\* A radius attribute as the rect rule reads it: absent is "auto", "none" is 0.
RadiusText(tag, name) == NoneIsZero(Get(tag, name, Auto))

\* The radius the rule gives before clamping: 0 when both are "auto", the
\* other's value when this one alone is "auto".
UnclampedRadius(tag, name, other) ==
    IF RadiusText(tag, name) # Auto THEN Float(RadiusText(tag, name))
    ELSE IF RadiusText(tag, other) = Auto THEN RZero
    ELSE Float(RadiusText(tag, other))

RectInRange(tag) ==
    /\ tag.name = "rect"
    /\ Get(tag, "width", Num(0)).n > 0 /\ Get(tag, "height", Num(0)).n > 0
    /\ RadiusText(tag, "rx").n >= 0 /\ RadiusText(tag, "ry").n >= 0

\* C13: for a rect of non-negative radii and positive width and height, the
\* radii given to the drawn rectangle are 0 when rx and ry are both "auto",
\* the other's value for one that alone is "auto", each then brought down to
\* half its dimension when it exceeds it, and left alone otherwise.
C13_RectRadiiAutoAndClamped ==
    (shape_pc # "start" /\ RectInRange(shape_tag)) =>
        /\ shape_pc = "returned"
        /\ Len(shape_path.elements) = 1
        /\ shape_path.elements[1].rx
             = RMin(UnclampedRadius(shape_tag, "rx", "ry"), Half(shape_path.elements[1].w))
        /\ shape_path.elements[1].ry
             = RMin(UnclampedRadius(shape_tag, "ry", "rx"), Half(shape_path.elements[1].h))
        /\ shape_path.elements[1].w = Float(shape_tag.attrib["width"][1])
        /\ shape_path.elements[1].h = Float(shape_tag.attrib["height"][1])

\* C13 witness: rx = 5 with ry "auto" on a 4 x 4 rect: both radii are 5 by
\* the auto rule and 2 after clamping.
C13_Witness ==
    /\ shape_pc = "returned"
    /\ shape_tag.name = "rect"
    /\ shape_tag.attrib["width"] = <<Num(4)>> /\ shape_tag.attrib["height"] = <<Num(4)>>
    /\ shape_tag.attrib["rx"] = <<Num(5)>> /\ shape_tag.attrib["ry"] \in {<<>>, <<Auto>>}
    /\ shape_path.elements[1].rx = R(2) /\ shape_path.elements[1].ry = R(2)

\* Both radii are "auto" or absent, or one of them is the number zero.
NoEllipseRadius(tag) ==
    \/ Get(tag, "rx", Auto) = Auto /\ Get(tag, "ry", Auto) = Auto
    \/ \E name \in {"rx", "ry"} :
          Has(tag, name) /\ IsFloat(tag.attrib[name][1]) /\ tag.attrib[name][1].n = 0

\* C14: an ellipse whose radii are both "auto" or absent, or one of whose
\* radii is zero, comes back as a path with no geometry.
C14_EllipseWithoutRadiusIsEmpty ==
    (shape_pc # "start" /\ shape_tag.name = "ellipse" /\ NoEllipseRadius(shape_tag)) =>
        (shape_pc = "returned" /\ shape_path.elements = <<>>)

-----------------------------------------------------------------------------
(* Style mapper: parse_style, svg_attr_map and apply_styles.               *)
(*                                                                         *)
(* Attribute values are texts, as for the shapes.  A style field holds     *)
(* Unset until something is assigned to it, then the INHERIT marker, None  *)
(* or a value.                                                             *)

Unset == [kind |-> "unset"]
Inherit == [kind |-> "inherit"]
None == [kind |-> "none"]
Val(v) == [kind |-> "value", v |-> v]

Converted(value) == [err |-> "none", value |-> value]
ConvertFailed == [err |-> "ValueError", value |-> Unset]

\* The names html.COLOR_DICT knows and the hex forms, among the texts used.
ColorTexts == {Word("red"), Word("#fff")}

svgcolor(colorstr) ==
    IF colorstr \in ColorTexts THEN Converted(Val(colorstr)) ELSE ConvertFailed

convert_stroke_width(incoming) ==
    IF ~IsFloat(incoming) THEN ConvertFailed
    ELSE IF incoming.n < 0 THEN ConvertFailed
    ELSE IF incoming.n = 0 THEN Converted(None)
    ELSE Converted(Val(Float(incoming)))

convert_miterlimit(incoming) ==
    IF ~IsFloat(incoming) THEN ConvertFailed
    ELSE IF incoming.n < 1 THEN ConvertFailed
    ELSE Converted(Val(Float(incoming)))

clamp_float(min_val, max_val, value) ==
    IF ~IsFloat(value) THEN ConvertFailed
    ELSE IF RLt(Float(value), min_val) THEN Converted(Val(min_val))
    ELSE IF RLt(max_val, Float(value)) THEN Converted(Val(max_val))
    ELSE Converted(Val(Float(value)))

\* float, and the list of floats of a one-number dash array
ToFloat(value) == IF ~IsFloat(value) THEN ConvertFailed ELSE Converted(Val(Float(value)))
ToFloatList(value) ==
    IF ~IsFloat(value) THEN ConvertFailed ELSE Converted(Val(<<Float(value)>>))

\* The converters handed to inheritable / optional in svg_attr_map.
Converter(svg_attr, value) ==
    CASE svg_attr \in {"fill", "stroke"} -> svgcolor(value)
      [] svg_attr \in {"fill-opacity", "stroke-opacity"} -> clamp_float(RZero, ROne, value)
      [] svg_attr = "stroke-width" -> convert_stroke_width(value)
      [] svg_attr = "stroke-dasharray" -> ToFloatList(value)
      [] svg_attr = "stroke-dashoffset" -> ToFloat(value)
      [] svg_attr = "stroke-miterlimit" -> convert_miterlimit(value)
      [] OTHER -> Converted(Val(value))

inheritable(svg_attr, value) ==
    IF value = Word("inherit") THEN Converted(Inherit) ELSE Converter(svg_attr, value)

optional(svg_attr, value) ==
    IF value = Word("none") THEN Converted(None) ELSE inheritable(svg_attr, value)

\* svg_attr_map, in the order of its items: the attribute and the style
\* field it sets.
svg_attr_map ==
    <<[attr |-> "fill", field |-> "fill_color"],
      [attr |-> "fill-rule", field |-> "intersection_rule"],
      [attr |-> "fill-opacity", field |-> "fill_opacity"],
      [attr |-> "stroke", field |-> "stroke_color"],
      [attr |-> "stroke-width", field |-> "stroke_width"],
      [attr |-> "stroke-dasharray", field |-> "stroke_dash_pattern"],
      [attr |-> "stroke-dashoffset", field |-> "stroke_dash_phase"],
      [attr |-> "stroke-linecap", field |-> "stroke_cap_style"],
      [attr |-> "stroke-linejoin", field |-> "stroke_join_style"],
      [attr |-> "stroke-miterlimit", field |-> "stroke_miter_limit"],
      [attr |-> "stroke-opacity", field |-> "stroke_opacity"]>>

\* The value an entry of svg_attr_map makes of the attribute's text.
MapEntry(svg_attr, value) ==
    IF svg_attr \in {"fill", "stroke", "stroke-dasharray"}
    THEN optional(svg_attr, value)
    ELSE inheritable(svg_attr, value)

MappedAttrs == {svg_attr_map[i].attr : i \in 1..Len(svg_attr_map)}
PresentationAttrs == MappedAttrs \union {"opacity"}
StyleAttribNames == PresentationAttrs \union {"style", "transform"}
StyleFields ==
    {svg_attr_map[i].field : i \in 1..Len(svg_attr_map)} \union {"auto_close", "transform"}

\* parse_style: the pairs of the style text become attributes.
RECURSIVE ParseStylePairs(_, _, _)
ParseStylePairs(attrs, pairs, i) ==
    IF i > Len(pairs) THEN attrs
    ELSE ParseStylePairs([attrs EXCEPT ![pairs[i].name] = <<pairs[i].value>>], pairs, i + 1)

parse_style(attrs) ==
    IF attrs["style"] = <<>> THEN attrs ELSE ParseStylePairs(attrs, attrs["style"][1], 1)

-----------------------------------------------------------------------------
(* SpecStyle: apply_styles on one element, step by step.                   *)

StyleTexts ==
    {Word("inherit"), Word("none"), Word("#fff"), Num(-1), Num(0), Num(1), Num(2)}

NoStyleAttrs == [name \in StyleAttribNames |-> <<>>]

\* The element: at most one presentation attribute or a transform, and at
\* most one pair in its style attribute.
StyleElements ==
    {[[NoStyleAttrs EXCEPT ![a.name] = a.value] EXCEPT !["style"] = st] :
        a \in [name : PresentationAttrs, value : {<<t>> : t \in StyleTexts}]
              \union {[name |-> "transform", value |-> <<>>],
                      [name |-> "transform", value |-> <<Scale2>>]},
        st \in {<<>>} \union
               {<<<<[name |-> n, value |-> t]>>>> : n \in PresentationAttrs, t \in StyleTexts}}

InitStyle ==
    /\ style_pc = "parse"
    /\ attrib \in StyleElements
    /\ style = [f \in StyleFields |-> Unset]
    /\ style_i = 0
    /\ IdleTransform /\ IdlePath /\ IdleWalk /\ IdleViewport /\ IdleShape

\* parse_style(svg_element); stylable.style.auto_close = False
ParseStyle ==
    /\ style_pc = "parse"
    /\ attrib' = parse_style(attrib)
    /\ style' = [style EXCEPT !["auto_close"] = Val(FALSE)]
    /\ style_pc' = "map"
    /\ UNCHANGED <<style_i, tfVars, pathVars, walkVars, vpVars, shapeVars>>

\* setattr(stylable.style, attr, value), or the converter raised.
SetAttr(field, r) ==
    IF r.err # "none"
    THEN style_pc' = "raised" /\ UNCHANGED style
    ELSE style_pc' = style_pc /\ style' = [style EXCEPT ![field] = r.value]

\* One pass of "for svg_attr, converter in svg_attr_map.items()".
MapAttribute ==
    /\ style_pc = "map"
    /\ style_i < Len(svg_attr_map)
    /\ style_i' = style_i + 1
    /\ IF attrib[svg_attr_map[style_i + 1].attr] = <<>>
       THEN UNCHANGED <<style_pc, style>>
       ELSE SetAttr(svg_attr_map[style_i + 1].field,
                    MapEntry(svg_attr_map[style_i + 1].attr,
                             attrib[svg_attr_map[style_i + 1].attr][1]))
    /\ UNCHANGED <<attrib, tfVars, pathVars, walkVars, vpVars, shapeVars>>

\* opacity = float(svg_element.attrib["opacity"]), set on both opacities.
GenericOpacity ==
    /\ style_pc = "map"
    /\ style_i = Len(svg_attr_map)
    /\ IF attrib["opacity"] = <<>>
       THEN style_pc' = "transform" /\ UNCHANGED style
       ELSE IF ~IsFloat(attrib["opacity"][1])
       THEN style_pc' = "raised" /\ UNCHANGED style
       ELSE /\ style_pc' = "transform"
            /\ style' = [style EXCEPT !["fill_opacity"] = Val(Float(attrib["opacity"][1])),
                                      !["stroke_opacity"] = Val(Float(attrib["opacity"][1]))]
    /\ UNCHANGED <<attrib, style_i, tfVars, pathVars, walkVars, vpVars, shapeVars>>

\* stylable.transform = convert_transforms(tfstr), and apply_styles returns.
Transformed(styled) ==
    IF styled.err # "none" THEN style_pc' = "raised" /\ UNCHANGED style
    ELSE IF styled.transform = <<>> THEN style_pc' = "done" /\ UNCHANGED style
    ELSE style_pc' = "done" /\ style' = [style EXCEPT !["transform"] = Val(styled.transform[1])]

StyleTransform ==
    /\ style_pc = "transform"
    /\ Transformed(ApplyStyles([transform |-> attrib["transform"]]))
    /\ UNCHANGED <<attrib, style_i, tfVars, pathVars, walkVars, vpVars, shapeVars>>

NextStyle ==
    \/ ParseStyle
    \/ MapAttribute
    \/ GenericOpacity
    \/ StyleTransform

SpecStyle == InitStyle /\ [][NextStyle]_vars

\* The style fields a presentation attribute is mapped to.
FieldsOf(name) ==
    IF name = "opacity" THEN {"fill_opacity", "stroke_opacity"}
    ELSE {svg_attr_map[i].field : i \in {j \in 1..Len(svg_attr_map) : svg_attr_map[j].attr = name}}

\* apply_styles has ended, one way or the other.
StyleEnded == style_pc \in {"done", "raised"}

\* Every presentation attribute of the element, its style text included,
\* says "inherit", and there is one.
OnlyInherit ==
    /\ \A name \in PresentationAttrs : attrib[name] \in {<<>>, <<Word("inherit")>>}
    /\ \E name \in PresentationAttrs : attrib[name] # <<>>

\* C15: "inherit" is accepted for every presentation attribute: apply_styles
\* raises nothing and leaves the inherit marker in the attribute's fields.
C15_InheritAcceptedEverywhere ==
    (StyleEnded /\ OnlyInherit) =>
        /\ style_pc = "done"
        /\ \A name \in PresentationAttrs :
              attrib[name] # <<>> => \A f \in FieldsOf(name) : style[f] = Inherit

InUnitRange(q) == ~RLt(q, RZero) /\ ~RLt(ROne, q)

\* C20: a concrete fill_opacity or stroke_opacity that apply_styles has
\* assigned lies between 0 and 1.
C20_OpacitiesInUnitRange ==
    \A f \in {"fill_opacity", "stroke_opacity"} :
        (style_pc # "idle" /\ style[f].kind = "value") => InUnitRange(style[f].v)

====
